---- MODULE Spec2Model ----
(***************************************************************************)
(* TMdecoder: decoding of Strateole-2 TM message files (RS41 and LPC).     *)
(* A message file is a byte string: a <TM>...</TM> XML header, a           *)
(* <CRC>...</CRC> block, the keyword START and the binary payload.         *)
(* Bytes are integers 0..255, text is the sequence of its character codes. *)
(* Floating-point results are kept as scaled integers (hundredths for the  *)
(* RS41 record, thousandths for the LPC housekeeping table).  The Hardy    *)
(* (1998) vapour-pressure polynomial (exp/log of reals) is not modelled:   *)
(* the two fields derived from it are left out of the RS41 record.         *)
(***************************************************************************)
EXTENDS Integers, Sequences, FiniteSets, TLC

VARIABLES
  args,     \* the parsed command line (argParse)
  n_files,  \* len(tm_files): the number of files the loop zips over
  idx,      \* 1-based number of the file the loop is at
  pc,       \* position of the main program
  cur,      \* content of the file of the current iteration, as read from disk
  msg,      \* the message constructed in the current iteration, or NoMsg
  exc,      \* the exception raised in the current iteration, or "none"
  rows,     \* the lines printCsv / saveCsv emitted for the current file
  tmout,    \* whether print(msg.tm()) ran for the current file
  log       \* per file gone through: "rows", "silent" or "reported"

vars == <<args, n_files, idx, pc, cur, msg, exc, rows, tmout, log>>

(***************************************************************************)
(* Bounds of the model.                                                    *)
(***************************************************************************)
\* files of one batch
MaxFiles == 2
\* complete RS41 records in the longest payload
MaxRecs == 2
\* LPC frames in the longest payload
MaxFrames == 2

(***************************************************************************)
(* Program constants.                                                      *)
(***************************************************************************)
\* record_len = 1 + 4 + 2 + 2 + 2 + 2 + 2
record_len == 15
\* range(6, len(self.bindata)-6, record_len): pre-header and trailer
rs41_skip == 6
\* int(len(self.bindata)/96): the LPC stride
lpc_stride == 96
\* indx = 36 + (y+1)*96
lpc_base == 36
\* find(b'</CRC>\nSTART') + 12
start_skip == 12

Min(a, b) == IF a < b THEN a ELSE b
Max(a, b) == IF a > b THEN a ELSE b

(***************************************************************************)
(* Python primitives used by the decoder.                                  *)
(***************************************************************************)
\* whether pat occurs in s at 0-based offset k
OccursAt(s, pat, k) ==
  /\ k + Len(pat) <= Len(s)
  /\ \A j \in 1..Len(pat) : s[k + j] = pat[j]

\* bytes.find(pat): the lowest 0-based offset of pat in s, or -1
Find(s, pat) ==
  LET first(hits) == IF hits = {} THEN -1
                     ELSE CHOOSE k \in hits : \A m \in hits : k <= m
  IN  first({k \in 0..(Len(s) - Len(pat)) : OccursAt(s, pat, k)})

\* a slice bound as Python normalises it for a sequence of length n
SliceIndex(x, n) == IF x < 0 THEN Max(x + n, 0) ELSE Min(x, n)

\* s[a:b] of Python (0-based, end exclusive, negative bounds count from the end)
PySlice(s, a, b) ==
  LET lo == SliceIndex(a, Len(s))
      hi == SliceIndex(b, Len(s))
  IN  IF lo >= hi THEN <<>> ELSE SubSeq(s, lo + 1, hi)

\* struct.unpack_from needs size bytes at offset off, else struct.error
CanUnpack(buf, off, size) == off >= 0 /\ off + size <= Len(buf)

\* struct.unpack_from('B', buf, off)
U8(buf, off) == buf[off + 1]
\* struct.unpack_from('>H', buf, off)
U16(buf, off) == buf[off + 1] * 256 + buf[off + 2]
\* struct.unpack_from('>L', buf, off); the model's timestamps stay below
\* 2^31, the largest number TLC computes with
U32(buf, off) ==
  ((buf[off + 1] * 256 + buf[off + 2]) * 256 + buf[off + 3]) * 256 + buf[off + 4]
\* struct.unpack_from('>l', buf, off): two's complement, the first byte
\* carrying the sign
S32(buf, off) ==
  LET b1 == IF buf[off + 1] >= 128 THEN buf[off + 1] - 256 ELSE buf[off + 1]
  IN  ((b1 * 256 + buf[off + 2]) * 256 + buf[off + 3]) * 256 + buf[off + 4]

\* character codes of the digits and signs int() reads
IsDigit(c) == c >= 48 /\ c <= 57

RECURSIVE DigitsValue(_)
DigitsValue(t) ==
  IF t = <<>> THEN 0
  ELSE DigitsValue(SubSeq(t, 1, Len(t) - 1)) * 10 + (t[Len(t)] - 48)

\* int(text): [ok, val]; a text that is no signed decimal number raises
\* ValueError (the texts of the model hold none of the blanks and underscores
\* that int() also reads over)
PyInt(t) ==
  LET signed == Len(t) > 0 /\ t[1] \in {43, 45}
      digits == IF signed THEN Tail(t) ELSE t
      good   == Len(digits) > 0 /\ \A j \in 1..Len(digits) : IsDigit(digits[j])
  IN  IF ~good THEN [ok |-> FALSE, val |-> 0]
      ELSE [ok |-> TRUE,
            val |-> IF signed /\ t[1] = 45 THEN 0 - DigitsValue(digits)
                    ELSE DigitsValue(digits)]

(***************************************************************************)
(* TMmsg: the container framer.                                            *)
(* A file is [data, xml]: data is the byte content, xml is what            *)
(* xmltodict.parse yields for the text of a well-formed <TM> block:        *)
(* keys is the set of its child tags, the other fields their texts.        *)
(***************************************************************************)
\* b'<TM>'
TMopen == <<60, 84, 77, 62>>
\* b'</TM>'
TMclose == <<60, 47, 84, 77, 62>>
\* b'</CRC>'
CRCclose == <<60, 47, 67, 82, 67, 62>>
\* b'</CRC>\nSTART'
StartAnchor == CRCclose \o <<10, 83, 84, 65, 82, 84>>
\* 'RS41'
TextRS41 == <<82, 83, 52, 49>>

\* self.data[start:end+len(endTxt)].decode(): the text is ASCII, which
\* decode() maps to the same character codes
delimitedText(data, startTxt, endTxt) ==
  LET start == Find(data, startTxt)
      end   == Find(data, endTxt)
  IN  PySlice(data, start, end + Len(endTxt))

\* xmltodict.parse of the <TM> text: an ExpatError unless the text is one
\* <TM> element; [err, xml]
parse_TM_xml(f) ==
  LET parse(xml_txt) ==
        IF /\ Len(xml_txt) >= Len(TMopen) + Len(TMclose)
           /\ OccursAt(xml_txt, TMopen, 0)
           /\ OccursAt(xml_txt, TMclose, Len(xml_txt) - Len(TMclose))
        THEN [err |-> "none", xml |-> f.xml]
        ELSE [err |-> "ExpatError", xml |-> f.xml]
  IN  parse(delimitedText(f.data, TMopen, TMclose))

\* bin_length with a default for a header that has no Length
bin_length_default(xml) ==
  LET conv(v) == IF v.ok THEN [err |-> "none", val |-> v.val]
                 ELSE [err |-> "none", val |-> 0]
  IN  IF "Length" \notin xml.keys THEN [err |-> "none", val |-> 0]
      ELSE conv(PyInt(xml.Length))

\* int(tm_xml['TM']['Length']): [err, val]
bin_length(xml) ==
  LET conv(v) == IF v.ok THEN [err |-> "none", val |-> v.val]
                 ELSE [err |-> "ValueError", val |-> 0]
  IN  IF "Length" \notin xml.keys THEN [err |-> "KeyError", val |-> 0]
      ELSE conv(PyInt(xml.Length))

\* bin_start counted from the end of '</CRC>' instead of its start
bin_start_tag(data) == Find(data, StartAnchor) + Len(CRCclose) + start_skip

\* self.data.find(b'</CRC>\nSTART') + 12
bin_start(data) == Find(data, StartAnchor) + start_skip

\* TMmsg.binaryData: [err, bindata]
binaryData(f) ==
  LET slice(len, start) ==
        IF len.err # "none" THEN [err |-> len.err, bindata |-> <<>>]
        ELSE [err |-> "none", bindata |-> PySlice(f.data, start, start + len.val)]
      get(tm_xml) ==
        IF tm_xml.err # "none" THEN [err |-> tm_xml.err, bindata |-> <<>>]
        ELSE slice(bin_length(tm_xml.xml), bin_start(f.data))
  IN  get(parse_TM_xml(f))

\* the value of msg before any message was constructed
NoMsg == [kind |-> "none"]

\* TMmsg.__init__ with timeStamp: [err, msg]; formatted_time is a function
\* of unix_end_time and is not stored apart from it
TMinit(f) ==
  LET make(b) ==
        IF b.err # "none" THEN [err |-> b.err, msg |-> NoMsg]
        ELSE IF ~CanUnpack(b.bindata, 0, 4) THEN [err |-> "struct.error", msg |-> NoMsg]
        ELSE [err |-> "none",
              msg |-> [kind |-> "TM", data |-> f.data, bindata |-> b.bindata,
                       unix_end_time |-> U32(b.bindata, 0)]]
  IN  make(binaryData(f))

(***************************************************************************)
(* RS41msg: the humidity/temperature decoder.                              *)
(***************************************************************************)
\* the offsets and sizes decodeRS41sample unpacks
RS41Fields == {<<0, 1>>, <<1, 4>>, <<5, 2>>, <<7, 2>>, <<9, 2>>, <<11, 2>>, <<13, 2>>}

\* decodeRS41sample with the pressure scaled by 100, as the payload comment
\* has it, instead of 50
decodeRS41sample_pres100(record) ==
  IF \E fd \in RS41Fields : ~CanUnpack(record, fd[1], fd[2])
  THEN [err |-> "struct.error", rec |-> [valid |-> 0]]
  ELSE [err |-> "none",
        rec |-> [valid |-> U8(record, 0),
                 secs_from_start |-> S32(record, 1),
                 air_temp_degC |-> U16(record, 5) - 10000,
                 humdity_percent |-> U16(record, 7),
                 humidity_sensor_temp_degC |-> U16(record, 9) - 10000,
                 pres_mb |-> U16(record, 11),
                 module_error |-> U16(record, 13)]]

\* RS41msg.decodeRS41sample: [err, rec]; temperatures, humidity and pressure
\* in hundredths of their unit
decodeRS41sample(record) ==
  IF \E fd \in RS41Fields : ~CanUnpack(record, fd[1], fd[2])
  THEN [err |-> "struct.error", rec |-> [valid |-> 0]]
  ELSE [err |-> "none",
        rec |-> [valid |-> U8(record, 0),
                 secs_from_start |-> S32(record, 1),
                 air_temp_degC |-> U16(record, 5) - 10000,
                 humdity_percent |-> U16(record, 7),
                 humidity_sensor_temp_degC |-> U16(record, 9) - 10000,
                 pres_mb |-> U16(record, 11) * 2,
                 module_error |-> U16(record, 13)]]

\* the number of values of range(6, n-6, record_len)
RangeCount(n) ==
  IF n - rs41_skip <= rs41_skip THEN 0
  ELSE (n - 2 * rs41_skip + record_len - 1) \div record_len

\* self.bindata[i:i+record_len] for the k-th value i of the range (k from 0)
RecordSlice(bindata, k) ==
  PySlice(bindata, rs41_skip + k * record_len, rs41_skip + k * record_len + record_len)

\* StartTime without the extra second
StartTime_span(unix_end_time, first, last) == unix_end_time - (last - first)

\* start_time = unix_end_time - (records[-1] - records[0] + 1)
StartTime(unix_end_time, first, last) == unix_end_time - (last - first + 1)

\* UnixTime with the seconds subtracted
UnixTime_minus(secs_from_start, start_time) == start_time - secs_from_start

\* records[i]['unix_time'] = records[i]['secs_from_start'] + start_time
UnixTime(secs_from_start, start_time) == secs_from_start + start_time

\* RS41msg.allRS41samples: [err, records]
allRS41samples(bindata, unix_end_time) ==
  LET stamp(decoded, cnt, start_time) ==
        [k \in 1..cnt |->
           [valid |-> decoded[k].rec.valid,
            secs_from_start |-> decoded[k].rec.secs_from_start,
            air_temp_degC |-> decoded[k].rec.air_temp_degC,
            humdity_percent |-> decoded[k].rec.humdity_percent,
            humidity_sensor_temp_degC |-> decoded[k].rec.humidity_sensor_temp_degC,
            pres_mb |-> decoded[k].rec.pres_mb,
            module_error |-> decoded[k].rec.module_error,
            unix_time |-> UnixTime(decoded[k].rec.secs_from_start, start_time)]]
      collect(decoded, cnt) ==
        IF \E k \in 1..cnt : decoded[k].err # "none"
        THEN [err |-> "struct.error", records |-> <<>>]
        ELSE IF cnt = 0 THEN [err |-> "IndexError", records |-> <<>>]
        ELSE [err |-> "none",
              records |-> stamp(decoded, cnt,
                                StartTime(unix_end_time,
                                          decoded[1].rec.secs_from_start,
                                          decoded[cnt].rec.secs_from_start))]
      loop(cnt) ==
        collect([k \in 1..cnt |-> decodeRS41sample(RecordSlice(bindata, k - 1))], cnt)
  IN  loop(RangeCount(Len(bindata)))

\* RS41msg.__init__: [err, msg]
RS41init(f) ==
  LET finish(t, r) ==
        IF r.err # "none" THEN [err |-> r.err, msg |-> NoMsg]
        ELSE [err |-> "none",
              msg |-> [kind |-> "RS41", data |-> t.msg.data, bindata |-> t.msg.bindata,
                       unix_end_time |-> t.msg.unix_end_time, records |-> r.records]]
      super(t) ==
        IF t.err # "none" THEN t
        ELSE finish(t, allRS41samples(t.msg.bindata, t.msg.unix_end_time))
  IN  super(TMinit(f))

(***************************************************************************)
(* LPCmsg: the particle-counter decoder.                                   *)
(***************************************************************************)
\* str.split(','): the texts between the commas (code 44)
RECURSIVE Split(_)
Split(t) ==
  LET cut(c) == <<SubSeq(t, 1, c - 1)>> \o Split(SubSeq(t, c + 1, Len(t)))
      first(commas) == IF commas = {} THEN <<t>>
                       ELSE cut(CHOOSE j \in commas : \A m \in commas : j <= m)
  IN  first({j \in 1..Len(t) : t[j] = 44})

\* FrameCount that drops one stride only
FrameCount_one(n) == (n \div lpc_stride) - 1

\* records = int(len(self.bindata)/96) - 2
FrameCount(n) == (n \div lpc_stride) - 2

\* FrameBase that skips two strides
FrameBase_two(y) == lpc_base + (y + 2) * lpc_stride

\* indx = 36 + (y+1)*96
FrameBase(y) == lpc_base + (y + 1) * lpc_stride

\* the offsets of the struct.unpack_from calls of unpackBinary for a payload
\* of n bytes: indx + x*2, indx + x*2 + 32, indx + x*2 + 64
LPCReads(n) ==
  {FrameBase(y) + x * 2 + o : y \in 0..(FrameCount(n) - 1), x \in 0..15, o \in {0, 32, 64}}

\* HKvalue without the conversion of the temperatures to degrees Celsius
HKvalue_kelvin(k, raw, unix_end_time) ==
  CASE k = 0 -> raw + unix_end_time
    [] k \in 1..3 -> raw
    [] k \in 4..8 -> raw
    [] k \in 9..10 -> raw
    [] OTHER -> raw * 10

\* the housekeeping table of unpackBinary: indices 0..3 and 9..10 in units,
\* indices 4..8 (raw / 1000.0) and 11..15 (raw / 100.0 - 273.15) in
\* thousandths
HKvalue(k, raw, unix_end_time) ==
  CASE k = 0 -> raw + unix_end_time
    [] k \in 1..3 -> raw
    [] k \in 4..8 -> raw
    [] k \in 9..10 -> raw
    [] OTHER -> raw * 10 - 273150

\* LPCmsg.unpackBinary: [err, HGBins, LGBins, HKData], each indexed [x][y]
\* as the numpy arrays are; np.zeros of a negative shape is a ValueError
unpackBinary(bindata, unix_end_time) ==
  LET none == [x \in 0..15 |-> <<>>]
      unpack(records) ==
        IF records < 0
        THEN [err |-> "ValueError", HGBins |-> none, LGBins |-> none, HKData |-> none]
        ELSE IF \E y \in 0..(records - 1), x \in 0..15, o \in {0, 32, 64} :
                  ~CanUnpack(bindata, FrameBase(y) + x * 2 + o, 2)
        THEN [err |-> "struct.error", HGBins |-> none, LGBins |-> none, HKData |-> none]
        ELSE [err |-> "none",
              HGBins |-> [x \in 0..15 |-> [y \in 0..(records - 1) |->
                            U16(bindata, FrameBase(y) + x * 2)]],
              LGBins |-> [x \in 0..15 |-> [y \in 0..(records - 1) |->
                            U16(bindata, FrameBase(y) + x * 2 + 32)]],
              HKData |-> [x \in 0..15 |-> [y \in 0..(records - 1) |->
                            HKvalue(x, U16(bindata, FrameBase(y) + x * 2 + 64),
                                    unix_end_time)]]]
  IN  unpack(FrameCount(Len(bindata)))

\* LPCmsg.__init__: [err, msg]; hasInst tells whether self.inst was assigned
LPCinit(f) ==
  LET finish(t, tm_xml, tokens, u) ==
        IF u.err # "none" THEN [err |-> u.err, msg |-> NoMsg]
        ELSE [err |-> "none",
              msg |-> [kind |-> "LPC", data |-> t.msg.data, bindata |-> t.msg.bindata,
                       unix_end_time |-> t.msg.unix_end_time,
                       instrument |-> "Unknown",
                       hasInst |-> "Inst" \in tm_xml.keys,
                       inst |-> IF "Inst" \in tm_xml.keys THEN tm_xml.Inst ELSE <<>>,
                       lat |-> IF Len(tokens) = 3 THEN tokens[1] ELSE <<>>,
                       lon |-> IF Len(tokens) = 3 THEN tokens[2] ELSE <<>>,
                       alt |-> IF Len(tokens) = 3 THEN tokens[3] ELSE <<>>,
                       HGBins |-> u.HGBins, LGBins |-> u.LGBins, HKData |-> u.HKData]]
      meta(t, tm_xml) ==
        finish(t, tm_xml,
               IF "StateMess3" \in tm_xml.keys THEN Split(tm_xml.StateMess3) ELSE <<>>,
               unpackBinary(t.msg.bindata, t.msg.unix_end_time))
      super(t) == IF t.err # "none" THEN t ELSE meta(t, parse_TM_xml(f).xml)
  IN  super(TMinit(f))

\* the frames of an LPC message: len(self.HKData[0,:])
Frames(m) == Cardinality(DOMAIN m.HKData[0])

(***************************************************************************)
(* The tabular emitter.  A line is [kind, fields]; a data line carries the *)
(* scaled numbers, a header line the number of its fields is what matters. *)
(* csv_io.getvalue().split('\r\n') ends with the empty string that follows *)
(* the last '\r\n'.                                                        *)
(***************************************************************************)
EmptyLine == [kind |-> "empty", fields |-> <<>>]

\* RS41msg.csvText: [err, lines]
RS41csvText(m) ==
  [err |-> "none",
   lines |->
     <<[kind |-> "instrument", fields |-> <<"Instrument:", "RS41",
          "Measurement End Time:", "formatted_time",
          "NCAR RS41 sensor on Strateole 2 Super Pressure Balloons">>],
       [kind |-> "columns", fields |-> <<"valid", "unix_time", "air_temp_degC",
          "humdity_percent", "humidity_sensor_temp", "pres_mb", "module_error",
          "rs41_rh_percent", "wv_mixing_ratio_ppmv">>]>>
     \o [k \in 1..Len(m.records) |->
          [kind |-> "data",
           fields |-> <<m.records[k].valid, m.records[k].unix_time,
                        m.records[k].air_temp_degC, m.records[k].humdity_percent,
                        m.records[k].humidity_sensor_temp_degC,
                        m.records[k].pres_mb, m.records[k].module_error>>]]
     \o <<EmptyLine>>]

\* LPCmsg.csvText: [err, lines]; header1 reads self.inst, an AttributeError
\* when __init__ did not assign it
LPCcsvText(m) ==
  IF ~m.hasInst THEN [err |-> "AttributeError", lines |-> <<>>]
  ELSE
  [err |-> "none",
   lines |->
     <<[kind |-> "instrument", fields |-> <<"Instrument:", m.inst,
          "Measurement End Time:", "formatted_time",
          "LASP Optical Particle Counter on Strateole 2 Super Pressure Balloons">>],
       [kind |-> "gps", fields |-> <<"GPS Position at start of Measurement ",
          "Latitude: ", "lat", "Longitude: ", "lon", "Altitude [m]:", "alt">>],
       [kind |-> "columns", fields |-> [j \in 1..48 |-> "name"]],
       [kind |-> "units", fields |-> [j \in 1..48 |-> "unit"]]>>
     \o [r \in 1..Frames(m) |->
          [kind |-> "data",
           fields |-> [j \in 1..48 |->
              IF j <= 16 THEN m.HKData[j - 1][r - 1]
              ELSE IF j <= 32 THEN m.HGBins[j - 17][r - 1]
              ELSE m.LGBins[j - 33][r - 1]]]]
     \o <<EmptyLine>>]

\* msg.csvText() of whichever class msg has
csvText(m) == IF m.kind = "LPC" THEN LPCcsvText(m) ELSE RS41csvText(m)

(***************************************************************************)
(* The message files the model decodes.  The byte layout follows the       *)
(* payload description in RS41msg and the offsets unpackBinary reads.      *)
(***************************************************************************)
\* the nb big-endian bytes of v, two's complement for a negative v
RECURSIVE BE(_, _)
BE(v, nb) == IF nb = 0 THEN <<>> ELSE BE(v \div 256, nb - 1) \o <<v % 256>>

\* the decimal text of a natural number
RECURSIVE Decimal(_)
Decimal(v) == IF v < 10 THEN <<48 + v>> ELSE Decimal(v \div 10) \o <<48 + (v % 10)>>

\* one RS41Sample_t: valid, frame, tdry, humidity, sensor temperature, pres, error
RS41Sample(secs, k) ==
  <<1>> \o BE(secs, 4) \o BE(12000 + k, 2) \o BE(5000 + k, 2)
        \o BE(12000 - k, 2) \o BE(10000 + k, 2) \o BE(k % 2, 2)

\* seconds-from-start sequences <<first, step>>: from 1, from 0, from a
\* negative count, and a decreasing one
SecsPatterns == {<<1, 1>>, <<0, 3>>, <<-3, 2>>, <<7, -2>>}

RECURSIVE RS41Samples(_, _)
RS41Samples(pat, k) ==
  IF k > MaxRecs THEN <<>>
  ELSE RS41Sample(pat[1] + k * pat[2], k) \o RS41Samples(pat, k + 1)

\* uint32 start time, uint16 n_samples, then the samples
RS41Stream(pat) ==
  BE(1000000 + pat[1], 4) \o BE(MaxRecs, 2) \o RS41Samples(pat, 0)

\* the longest RS41 payload: MaxRecs complete records
MaxRS41Len == 2 * rs41_skip + record_len * MaxRecs

\* an LPC payload: the end time, then words that differ from place to
\* place, between the three channels of a frame and from frame to frame
LPCStream ==
  BE(2000000, 4) \o [j \in 1..(lpc_stride * (MaxFrames + 3) - 4) |->
                       (j * 37 + (j \div 32) * 13 + 11) % 32]

\* LPC payload lengths: around every multiple of the stride
LPCLens == {lpc_stride * k + d : k \in 0..(MaxFrames + 2), d \in {0, 1, lpc_stride - 1}}

\* 'END'
EndText == <<69, 78, 68>>
\* '<CRC>1'
CRCblock == <<60, 67, 82, 67, 62, 49>>
\* the content of the <TM> element: line breaks and tabs stand for its tags
TMcontent == <<10, 9, 10, 9, 10, 9, 10, 9>>
\* 'LPC'
TextLPC == <<76, 80, 67>>

\* what a file is made from: the instrument, the seconds pattern, the number
\* a of payload bytes present, how Length is declared, whether the CRC block
\* with the START anchor and the <TM> markers are present, and the header
\* variant
FileParams ==
       [inst : {"rs41"}, pat : SecsPatterns, a : 0..MaxRS41Len, len : {"exact"},
        anchor : {TRUE}, tm : {TRUE}, hdr : {1}]
  \cup [inst : {"rs41"}, pat : {<<1, 1>>}, a : {a \in 0..MaxRS41Len : a % 3 = 0},
        len : {"over", "under"}, anchor : {TRUE}, tm : {TRUE}, hdr : {1}]
  \cup [inst : {"rs41"}, pat : {<<1, 1>>}, a : 0..MaxRS41Len, len : {"exact"},
        anchor : {FALSE}, tm : {TRUE}, hdr : {1}]
  \cup [inst : {"rs41"}, pat : {<<1, 1>>}, a : {2 * rs41_skip + record_len},
        len : {"absent", "nonnumeric", "negative"}, anchor : BOOLEAN, tm : {TRUE},
        hdr : {1}]
  \cup [inst : {"lpc"}, pat : {<<1, 1>>}, a : {3 * lpc_stride},
        len : {"absent", "nonnumeric", "negative"}, anchor : BOOLEAN, tm : {TRUE},
        hdr : {1}]
  \cup [inst : {"rs41", "lpc"}, pat : {<<1, 1>>}, a : {2 * rs41_skip + record_len},
        len : {"exact"}, anchor : {TRUE}, tm : {FALSE}, hdr : {1}]
  \cup [inst : {"lpc"}, pat : {<<1, 1>>}, a : LPCLens, len : {"exact"},
        anchor : {TRUE}, tm : {TRUE}, hdr : {1, 2, 3}]
  \cup [inst : {"lpc"}, pat : {<<1, 1>>}, a : LPCLens, len : {"over", "under"},
        anchor : {TRUE}, tm : {TRUE}, hdr : {1}]
  \cup [inst : {"lpc"}, pat : {<<1, 1>>}, a : LPCLens, len : {"exact"},
        anchor : {FALSE}, tm : {TRUE}, hdr : {1}]

\* the <TM> header of a file: hdr 1 has Inst and a 3-field StateMess3, hdr 2
\* has neither, hdr 3 has Inst and a 2-field StateMess3
FileXml(p) ==
  [keys |-> (IF p.len = "absent" THEN {} ELSE {"Length"})
            \cup (IF p.inst = "rs41" THEN {"StateMess2"} ELSE {})
            \cup (IF p.hdr \in {1, 3} THEN {"Inst", "StateMess3"} ELSE {}),
   Length |-> CASE p.len = "exact" -> Decimal(p.a)
                [] p.len = "over" -> Decimal(p.a + Len(EndText) + 2)
                [] p.len = "under" -> Decimal(Max(p.a - 1, 0))
                [] p.len = "negative" -> <<45>> \o Decimal(2)
                [] p.len = "nonnumeric" -> <<49, 120>>
                [] OTHER -> <<>>,
   StateMess2 |-> IF p.inst = "rs41" THEN TextRS41 ELSE <<>>,
   Inst |-> IF p.hdr \in {1, 3} THEN TextLPC ELSE <<>>,
   StateMess3 |-> CASE p.hdr = 1 -> <<49, 44, 50, 44, 51>>
                    [] p.hdr = 3 -> <<49, 44, 50>>
                    [] OTHER -> <<>>]

\* the bytes of a file
FileData(p) ==
  LET stream == IF p.inst = "rs41" THEN RS41Stream(p.pat) ELSE LPCStream
  IN  (IF p.tm THEN TMopen \o TMcontent \o TMclose ELSE TMcontent)
      \o <<10>>
      \o (IF p.anchor THEN CRCblock \o StartAnchor ELSE <<>>)
      \o SubSeq(stream, 1, p.a) \o EndText

Files == {[data |-> FileData(p), xml |-> FileXml(p)] : p \in FileParams}

\* the command lines: one file printed; one file saved with -t -q; one file
\* with -q -l; a batch; a batch with -r -q; a batch with -l -t
ArgSets ==
  {[batch |-> FALSE, msg_type |-> "none", tm |-> FALSE, quiet |-> FALSE, csv |-> FALSE],
   [batch |-> FALSE, msg_type |-> "none", tm |-> TRUE, quiet |-> TRUE, csv |-> TRUE],
   [batch |-> FALSE, msg_type |-> "lpc", tm |-> FALSE, quiet |-> TRUE, csv |-> FALSE],
   [batch |-> TRUE, msg_type |-> "none", tm |-> FALSE, quiet |-> FALSE, csv |-> TRUE],
   [batch |-> TRUE, msg_type |-> "rs41", tm |-> FALSE, quiet |-> TRUE, csv |-> TRUE],
   [batch |-> TRUE, msg_type |-> "lpc", tm |-> TRUE, quiet |-> FALSE, csv |-> TRUE]}

(***************************************************************************)
(* __main__: the loop over the files.                                      *)
(***************************************************************************)
\* determine_msg_type: [err, type]
determine_msg_type(f) ==
  LET type(m, tm) ==
        IF m.err # "none" THEN [err |-> m.err, type |-> "lpc"]
        ELSE IF "StateMess2" \in tm.keys /\ tm.StateMess2 = TextRS41
        THEN [err |-> "none", type |-> "rs41"]
        ELSE [err |-> "none", type |-> "lpc"]
  IN  type(TMinit(f), parse_TM_xml(f).xml)

\* the try block up to the construction of msg: [err, msg]
Decode(a, f) ==
  LET make(ty) ==
        IF ty.err # "none" THEN [err |-> ty.err, msg |-> NoMsg]
        ELSE IF ty.type = "lpc" THEN LPCinit(f)
        ELSE RS41init(f)
  IN  IF a.msg_type # "none" THEN make([err |-> "none", type |-> a.msg_type])
      ELSE make(determine_msg_type(f))

\* the exceptions the except clause of the loop catches
Caught == {"struct.error"}

NoFile == [data |-> <<>>, xml |-> [keys |-> {}]]

Init ==
  /\ args \in ArgSets
  /\ n_files \in (IF args.batch THEN 0..MaxFiles ELSE {1})
  /\ idx = 1
  /\ pc = "loop"
  /\ cur = NoFile
  /\ msg = NoMsg
  /\ exc = "none"
  /\ rows = <<>>
  /\ tmout = FALSE
  /\ log = <<>>

\* the file of this iteration is read and its message constructed
Construct ==
  /\ pc = "loop"
  /\ idx <= n_files
  /\ \E f \in Files : \E r \in {Decode(args, f)} :
       /\ cur' = f
       /\ exc' = r.err
       /\ msg' = r.msg
       /\ pc' = IF r.err = "none" THEN "built"
                ELSE IF r.err \in Caught THEN "except" ELSE "uncaught"
  /\ UNCHANGED <<args, n_files, idx, rows, tmout, log>>

\* print(msg.tm()), msg.printCsv(), msg.saveCsv(csv_file)
Emit ==
  /\ pc = "built"
  /\ \E c \in {csvText(msg)} :
       LET emits == ~args.quiet \/ args.csv
       IN  IF emits /\ c.err # "none"
           THEN /\ exc' = c.err
                /\ pc' = "uncaught"
                /\ UNCHANGED <<rows, log>>
           ELSE /\ rows' = IF emits THEN c.lines ELSE <<>>
                /\ log' = Append(log, IF emits THEN "rows" ELSE "silent")
                /\ pc' = "emitted"
                /\ UNCHANGED exc
  /\ tmout' = args.tm
  /\ UNCHANGED <<args, n_files, idx, cur, msg>>

\* except struct.error: the file is reported
Report ==
  /\ pc = "except"
  /\ log' = Append(log, "reported")
  /\ pc' = "reported"
  /\ UNCHANGED <<args, n_files, idx, cur, msg, exc, rows, tmout>>

\* the for statement moves on to the next file; what the model recorded of
\* the finished iteration is cleared
NextFile ==
  /\ pc \in {"emitted", "reported"}
  /\ idx' = idx + 1
  /\ pc' = "loop"
  /\ cur' = NoFile
  /\ msg' = NoMsg
  /\ exc' = "none"
  /\ rows' = <<>>
  /\ tmout' = FALSE
  /\ UNCHANGED <<args, n_files, log>>

\* any other exception leaves the loop: the interpreter prints the
\* traceback and exits, the files left are not read
Crash ==
  /\ pc = "uncaught"
  /\ pc' = "traceback"
  /\ UNCHANGED <<args, n_files, idx, cur, msg, exc, rows, tmout, log>>

\* the list is exhausted
Finish ==
  /\ pc = "loop"
  /\ idx > n_files
  /\ pc' = "done"
  /\ UNCHANGED <<args, n_files, idx, cur, msg, exc, rows, tmout, log>>

Next == Construct \/ Emit \/ Report \/ NextFile \/ Crash \/ Finish

Spec == Init /\ [][Next]_vars

(***************************************************************************)
(* Vocabulary of the properties.                                           *)
(***************************************************************************)
\* the file of this iteration has been read
FileRead == Len(cur.data) > 0

\* the file holds the anchor b'</CRC>\nSTART'
Anchored == Find(cur.data, StartAnchor) >= 0

\* the file has a <TM> header that parses
HeaderParsed == FileRead /\ parse_TM_xml(cur).err = "none"

\* the text t is a decimal integer, with or without a sign
IsDecimal(t) ==
  \/ Len(t) > 0 /\ \A j \in 1..Len(t) : t[j] \in 48..57
  \/ Len(t) > 1 /\ t[1] \in {43, 45} /\ \A j \in 2..Len(t) : t[j] \in 48..57

\* the header declares a Length that is a number
LengthDeclared == HeaderParsed /\ "Length" \in cur.xml.keys /\ IsDecimal(cur.xml.Length)

\* the declared Length
Declared == PyInt(cur.xml.Length).val

\* the offset just after the '</CRC>' of the anchor
AfterCRC == Find(cur.data, StartAnchor) + Len(CRCclose)

\* the decoder the loop chooses for the file
TypeOf ==
  IF args.msg_type # "none" THEN args.msg_type
  ELSE IF "StateMess2" \in cur.xml.keys /\ cur.xml.StateMess2 = TextRS41 THEN "rs41"
  ELSE "lpc"

\* the framer hands a payload to the decoder of type ty
Framed(ty) == LengthDeclared /\ TypeOf = ty

\* the length of the payload the framer hands over
PayloadLen == Len(binaryData(cur).bindata)

\* nothing came out for the file of this iteration
NothingOut == msg.kind = "none" /\ rows = <<>>

(***************************************************************************)
(* C1: a file whose declared Length is larger than the number of bytes     *)
(* present after the anchor and its 12-byte skip is rejected: the message  *)
(* is not constructed and no record or row comes out of it.                *)
(***************************************************************************)
C1_OverDeclaredRejected ==
  (LengthDeclared /\ Anchored /\ Declared > Len(cur.data) - (AfterCRC + 6))
    => (exc # "none" /\ NothingOut)

(***************************************************************************)
(* C2: a file without the trailer marker is rejected: no payload is        *)
(* returned, no message with records is created and no row is emitted.     *)
(***************************************************************************)
C2_MissingMarkerRejected ==
  (FileRead /\ ~Anchored) => (exc # "none" /\ NothingOut)

(***************************************************************************)
(* C3 as stated: the unix_time of the final record of an RS41 message      *)
(* equals unix_end_time, whatever the first record's seconds-from-start.   *)
(***************************************************************************)
C3_LastRecordAtEndTime ==
  msg.kind = "RS41" =>
    msg.records[Len(msg.records)].unix_time = msg.unix_end_time

(***************************************************************************)
(* C3 amended: the unix_time of the final record of an RS41 message equals *)
(* unix_end_time + s - 1, where s is the seconds-from-start of the first   *)
(* record (bytes 7..10 of the payload); so it equals unix_end_time exactly *)
(* when s = 1.                                                             *)
(***************************************************************************)
C3_LastRecordOffset ==
  msg.kind = "RS41" =>
    /\ msg.unix_end_time = U32(msg.bindata, 0)
    /\ msg.records[Len(msg.records)].unix_time
         = msg.unix_end_time + S32(msg.bindata, rs41_skip + 1) - 1
    /\ (msg.records[Len(msg.records)].unix_time = msg.unix_end_time)
         <=> (S32(msg.bindata, rs41_skip + 1) = 1)

C3_Witness ==
  /\ msg.kind = "RS41"
  /\ Len(msg.records) >= 2
  /\ msg.records[1].secs_from_start = 0
  /\ msg.records[Len(msg.records)].unix_time = msg.unix_end_time - 1

(***************************************************************************)
(* C4: an RS41 payload whose record region holds fewer than 15 bytes       *)
(* (a payload shorter than 27 bytes) ends in a decode error, struct.error: *)
(* no record list, no record from a truncated slice, no other error kind.  *)
(***************************************************************************)
C4_ShortPayloadDecodeError ==
  Framed("rs41") =>
    \A L \in {PayloadLen} :
      L < 2 * rs41_skip + record_len => (exc = "struct.error" /\ NothingOut)

(***************************************************************************)
(* C5: an RS41 payload of L >= 27 bytes decodes to exactly                 *)
(* floor((L - 12) / 15) records, record k read from the bytes              *)
(* [6 + 15k, 6 + 15k + 15), none of them reaching into the last 6 bytes.   *)
(***************************************************************************)
C5_RecordSlicing ==
  Framed("rs41") =>
    \A L \in {PayloadLen} :
      L >= 2 * rs41_skip + record_len =>
      /\ msg.kind = "RS41"
      /\ \E q \in 1..L :
           /\ 15 * q <= L - 12
           /\ L - 12 < 15 * (q + 1)
           /\ Len(msg.records) = q
      /\ \A k \in 0..(Len(msg.records) - 1) :
           /\ 6 + 15 * k + 15 <= L - 6
           /\ msg.records[k + 1].valid = U8(msg.bindata, 6 + 15 * k)
           /\ msg.records[k + 1].secs_from_start = S32(msg.bindata, 6 + 15 * k + 1)

(***************************************************************************)
(* C6 as stated: for every payload length L the LPC decoder produces       *)
(* exactly floor(L / 96) - 2 frames.                                       *)
(***************************************************************************)
C6_FrameCountAnyLength ==
  Framed("lpc") =>
    \A L \in {PayloadLen} :
      /\ msg.kind = "LPC"
      /\ \E q \in 0..L :
           96 * q <= L /\ L < 96 * (q + 1) /\ Frames(msg) = q - 2

(***************************************************************************)
(* C6 amended: for every payload length L >= 192 the LPC decoder produces  *)
(* exactly floor(L / 96) - 2 frames, the columns of HKData, HGBins and     *)
(* LGBins (so 96 * (N + 2) bytes give N frames, N >= 0); for L < 192 it    *)
(* fails and produces no frames: struct.error below 4 bytes, ValueError    *)
(* (a negative array shape) from 4 to 191 bytes.                           *)
(***************************************************************************)
C6_FrameCount ==
  Framed("lpc") =>
    \A L \in {PayloadLen} :
      IF L >= 192
      THEN /\ msg.kind = "LPC"
           /\ \E q \in 2..L :
                /\ 96 * q <= L
                /\ L < 96 * (q + 1)
                /\ \A x \in 0..15 :
                     /\ DOMAIN msg.HKData[x] = 0..(q - 3)
                     /\ DOMAIN msg.HGBins[x] = 0..(q - 3)
                     /\ DOMAIN msg.LGBins[x] = 0..(q - 3)
      ELSE /\ NothingOut
           /\ exc = IF L < 4 THEN "struct.error" ELSE "ValueError"

C6_Witness ==
  /\ msg.kind = "LPC"
  /\ Len(msg.bindata) = 96 * (2 + 2)
  /\ Frames(msg) = 2

(***************************************************************************)
(* C7 as stated: with the anchor present the payload is                    *)
(* data[e+12 : e+12+Length], e the offset just after '</CRC>', and is      *)
(* exactly Length bytes long.                                              *)
(***************************************************************************)
C7_PayloadTwelvePastCRC ==
  (msg.kind # "none" /\ Anchored) =>
    \A e \in {AfterCRC}, n \in {Declared} :
      /\ Len(msg.bindata) = n
      /\ \A k \in 1..n :
           /\ e + 12 + k <= Len(cur.data)
           /\ msg.bindata[k] = cur.data[e + 12 + k]

(***************************************************************************)
(* C7 amended: with the anchor present and a Length that is not negative   *)
(* the payload is the Python slice data[e+6 : e+6+Length], e the offset    *)
(* just after the '</CRC>' of '</CRC>\nSTART': it starts 12 bytes past the *)
(* start of '</CRC>', right after 'START', and holds Length bytes or, when *)
(* the file ends sooner, the bytes left.                                   *)
(***************************************************************************)
C7_PayloadAfterStart ==
  (msg.kind # "none" /\ Anchored /\ Declared >= 0) =>
    \A e \in {AfterCRC}, n \in {Declared} :
      /\ Len(msg.bindata) = Min(n, Len(cur.data) - (e + 6))
      /\ \A k \in 1..Len(msg.bindata) : msg.bindata[k] = cur.data[e + 6 + k]
      /\ OccursAt(cur.data, <<83, 84, 65, 82, 84>>, e + 1)

C7_Witness ==
  /\ msg.kind = "RS41"
  /\ Anchored
  /\ Len(msg.bindata) = Declared
  /\ Declared = 2 * rs41_skip + 2 * record_len
  /\ Len(cur.data) > AfterCRC + 6 + Declared

(***************************************************************************)
(* C8: a file that fails leaves no row, and its failure does not stop the  *)
(* loop: when the program ends, the loop has gone through every file and   *)
(* each failed file was reported.                                          *)
(***************************************************************************)
C8_ErrorIsolation ==
  /\ exc # "none" => rows = <<>>
  /\ pc \in {"done", "traceback"} => (idx = n_files + 1 /\ Len(log) = n_files)

C10_TimeDifferences ==
  msg.kind = "RS41" =>
    /\ \A i, j \in 1..Len(msg.records) :
         msg.records[j].unix_time - msg.records[i].unix_time
           = S32(msg.bindata, rs41_skip + record_len * (j - 1) + 1)
             - S32(msg.bindata, rs41_skip + record_len * (i - 1) + 1)
    /\ (\A i, j \in 1..Len(msg.records) :
          i < j => msg.records[i].secs_from_start <= msg.records[j].secs_from_start)
       => (\A i, j \in 1..Len(msg.records) :
             i < j => msg.records[i].unix_time <= msg.records[j].unix_time)

C10_Witness ==
  /\ msg.kind = "RS41"
  /\ Len(msg.records) >= 2
  /\ msg.records[1].secs_from_start = -3
  /\ msg.records[2].secs_from_start = -1
  /\ msg.records[2].unix_time = msg.records[1].unix_time + 2

(***************************************************************************)
(* Vocabulary of the emitter properties.                                   *)
(***************************************************************************)
\* the header rows csvText writes before the data rows
HeaderRows(m) == IF m.kind = "LPC" THEN 4 ELSE 2

\* the records or frames the message holds
Decoded(m) == IF m.kind = "LPC" THEN Frames(m) ELSE Len(m.records)

\* the loop emitted the rows of the file of this iteration
RowsOut == pc = "emitted" /\ Len(log) > 0 /\ log[Len(log)] = "rows"

(***************************************************************************)
(* C11: for a message with N records or frames the emitter returns exactly *)
(* the header rows (RS41: 2, LPC: 4) followed by exactly N data rows in    *)
(* decode order and no other element, no empty one; an LPC data row has as *)
(* many fields as the column-name row (16 + 32); rendering a constructed   *)
(* message does not fail.                                                  *)
(***************************************************************************)
C11_RowSequence ==
  /\ msg.kind # "none" => exc = "none"
  /\ RowsOut =>
       \A h \in {HeaderRows(msg)}, n \in {Decoded(msg)} :
         /\ Len(rows) = h + n
         /\ \A k \in 1..Len(rows) : rows[k].kind # "empty"
         /\ \A k \in 1..h : rows[k].kind \notin {"data", "empty"}
         /\ \A k \in 1..n : rows[h + k].kind = "data"
         /\ msg.kind = "LPC" =>
              \A k \in 1..n :
                /\ Len(rows[h + k].fields) = Len(rows[3].fields)
                /\ Len(rows[h + k].fields) = 16 + 32
                /\ \A x \in 0..15 : rows[h + k].fields[x + 1] = msg.HKData[x][k - 1]
         /\ msg.kind = "RS41" =>
              \A k \in 1..n : rows[h + k].fields[2] = msg.records[k].unix_time

C13_HousekeepingTable ==
  msg.kind = "LPC" =>
    \A y \in DOMAIN msg.HKData[0] :
      LET base == 36 + (y + 1) * 96
          w(o) == msg.bindata[o + 1] * 256 + msg.bindata[o + 2]
      IN  /\ msg.HKData[0][y] = w(base + 64) + msg.unix_end_time
          /\ \A k \in (1..3) \cup (9..10) : msg.HKData[k][y] = w(base + 64 + 2 * k)
          /\ \A k \in 4..8 : msg.HKData[k][y] = w(base + 64 + 2 * k)
          /\ \A k \in 11..15 :
               msg.HKData[k][y] = (w(base + 64 + 2 * k) - 27315) * 10
          /\ \A x \in 0..15 :
               /\ msg.HGBins[x][y] = w(base + 2 * x)
               /\ msg.LGBins[x][y] = w(base + 32 + 2 * x)

C13_Witness ==
  /\ msg.kind = "LPC"
  /\ Frames(msg) = 2
  /\ msg.unix_end_time = 2000000
  /\ msg.HKData[0][1] > 2000000
  /\ msg.HKData[11][1] < 0
  /\ msg.HKData[11][0] # msg.HKData[11][1]
  /\ msg.HGBins[3][1] # msg.LGBins[3][1]

(***************************************************************************)
(* C14: for every LPC payload of L >= 192 bytes every 2-byte read of       *)
(* unpackBinary lies inside [0, L) and below the last, partial stride:     *)
(* unpacking never fails with struct.error and the message is constructed. *)
(***************************************************************************)
C14_ReadsInBounds ==
  Framed("lpc") =>
    \A L \in {PayloadLen} :
      L >= 192 =>
        /\ exc # "struct.error"
        /\ msg.kind = "LPC"
        /\ \A o \in LPCReads(L) :
             /\ 0 <= o
             /\ o + 2 <= L
             /\ o + 2 <= 96 * (L \div 96)
             /\ \E y \in DOMAIN msg.HKData[0] :
                  o >= 36 + (y + 1) * 96 /\ o + 2 <= 36 + (y + 2) * 96

C14_Witness ==
  /\ msg.kind = "LPC"
  /\ Len(msg.bindata) = 96 * 4
  /\ Frames(msg) = 2
  /\ Cardinality(LPCReads(Len(msg.bindata))) = 2 * 48
  /\ \E o \in LPCReads(Len(msg.bindata)) : o + 2 = 96 * 4 - 60

(***************************************************************************)
(* C15: every LPC message that was constructed can be rendered, whatever   *)
(* its header holds: csvText completes and the second field of its first   *)
(* row is the instrument identity, the header's Inst when there is one and *)
(* the default 'Unknown' when there is none.                               *)
(***************************************************************************)
C15_AlwaysRenderable ==
  msg.kind = "LPC" =>
    /\ exc = "none"
    /\ \A c \in {csvText(msg)} :
         /\ c.err = "none"
         /\ c.lines[1].kind = "instrument"
         /\ IF msg.hasInst THEN c.lines[1].fields[2] = msg.inst
            ELSE c.lines[1].fields[2] = msg.instrument

====
